---- MODULE Spec2Model ----
(***************************************************************************)
(* A model of PromptOptimization/download_datasets.py: four functions that *)
(* load a benchmark dataset, walk its first n records, reshape each one,   *)
(* write the list as a JSON file and return its length; and the script     *)
(* entry point that calls the four in sequence.                            *)
(*                                                                         *)
(* Text that the code inspects (the GSM8K answer text, the decimal text of *)
(* a label) is a sequence of one-character strings. Text that the code     *)
(* only copies (goal, question, ...) is an opaque string.                  *)
(***************************************************************************)
EXTENDS Integers, Sequences, FiniteSets, TLC

VARIABLES
    line,      \* position of the script's __main__ block (0: module imported, not run)
    total,     \* __main__'s running total
    fn,        \* the download function being executed ("none" outside a call)
    n,         \* its parameter n
    pc,        \* position inside the function
    dataset,   \* the sequence load_dataset returned
    i,         \* the enumerate index of the record the loop is about to look at
    data,      \* the list being accumulated
    ret,       \* the value the function returned
    exc,       \* the exception that left the function ("none" when there is none)
    files,     \* data/<name>.json for each dataset
    out,       \* what was printed
    loads,     \* history: how many times each dataset was loaded
    writes,    \* history: how many times each file was written
    emitted    \* history: the source position of each record appended to data

vars == <<line, total, fn, n, pc, dataset, i, data, ret, exc, files, out,
          loads, writes, emitted>>

-----------------------------------------------------------------------------
(* Bounds of the model                                                     *)

MaxSrc == 3        \* longest source of a direct call
MaxLimit == 3      \* largest explicit n of a direct call (besides the default)
MaxScriptSrc == 2  \* longest source in a run of the script
MaxTokens == 5     \* longest answer text, in tokens, of the text-level check

(* Program constants                                                       *)

DefaultN == 100    \* the default of n, and the n the script passes

-----------------------------------------------------------------------------
(* Python's text operations, as the code uses them                         *)

Marker == <<"#", "#", "#", "#">>

Whitespace == {" ", "\n", "\t"}

DigitChars == <<"0", "1", "2", "3", "4", "5", "6", "7", "8", "9">>

IsDigit(c) == \E d \in 1..10 : DigitChars[d] = c

DigitVal(c) == (CHOOSE d \in 1..10 : DigitChars[d] = c) - 1

\* s.find(sep) + 1: the first position where sep occurs in s, 0 when nowhere
Find(s, sep) ==
    LET hits == {q \in 1..(Len(s) - Len(sep) + 1) :
                    SubSeq(s, q, q + Len(sep) - 1) = sep}
    IN  IF hits = {} THEN 0 ELSE CHOOSE q \in hits : \A r \in hits : q <= r

\* sep in s
Contains(s, sep) == Find(s, sep) # 0

\* s.split(sep): cut at each occurrence found scanning from the left
RECURSIVE Split(_, _)
Split(s, sep) ==
    LET q == Find(s, sep)
    IN  IF q = 0 THEN <<s>>
        ELSE <<SubSeq(s, 1, q - 1)>> \o Split(SubSeq(s, q + Len(sep), Len(s)), sep)

\* s.strip()
RECURSIVE Strip(_)
Strip(s) ==
    IF s = <<>> THEN s
    ELSE IF s[1] \in Whitespace THEN Strip(Tail(s))
    ELSE IF s[Len(s)] \in Whitespace THEN Strip(SubSeq(s, 1, Len(s) - 1))
    ELSE s

\* s.replace(",", "")
RemoveCommas(s) == SelectSeq(s, LAMBDA c : c # ",")

\* whether float(s) accepts s: float strips whitespace itself and then wants a
\* numeric literal; over the characters of this model, a non-empty run of digits
IsFloatLiteral(s) ==
    LET t == Strip(s)
    IN  t # <<>> /\ \A k \in 1..Len(t) : IsDigit(t[k])

RECURSIVE DecimalValue(_)
DecimalValue(t) ==
    IF t = <<>> THEN 0
    ELSE 10 * DecimalValue(SubSeq(t, 1, Len(t) - 1)) + DigitVal(t[Len(t)])

\* float(s) for an s it accepts (the values of the model are whole numbers)
Float(s) == DecimalValue(Strip(s))

\* the decimal digits of a natural number k
RECURSIVE StrNat(_)
StrNat(k) ==
    IF k < 10 THEN <<DigitChars[k + 1]>>
    ELSE StrNat(k \div 10) \o <<DigitChars[(k % 10) + 1]>>

\* faulty variant: the sign lost
strUnsigned(k) == StrNat(IF k < 0 THEN -k ELSE k)

\* str(k) of an integer k
str(k) == IF k < 0 THEN <<"-">> \o StrNat(-k) ELSE StrNat(k)

-----------------------------------------------------------------------------
(* The raw records the dataset library can hand back                       *)

Functions == {"piqa", "hellaswag", "boolq", "gsm8k"}

PiqaRecords ==
    { [goal |-> "g1", sol1 |-> "a1", sol2 |-> "b1", label |-> 0],
      [goal |-> "g2", sol1 |-> "a2", sol2 |-> "b2", label |-> 1],
      [goal |-> "g1", sol1 |-> "a2", sol2 |-> "b1", label |-> -1],
      [goal |-> "g2", sol1 |-> "a1", sol2 |-> "b2", label |-> 107] }

HellaswagRecords ==
    { [ctx |-> "c1", endings |-> <<"e1", "e2", "e3", "e4">>, label |-> 0],
      [ctx |-> "c2", endings |-> <<"e4", "e3", "e2", "e1">>, label |-> 3],
      [ctx |-> "c1", endings |-> <<"e1", "e1", "e2", "e2">>, label |-> 7],
      [ctx |-> "c2", endings |-> <<"e1", "e2", "e3", "e4">>, label |-> -20] }

BoolqRecords ==
    { [question |-> "q1", passage |-> "p1", answer |-> TRUE],
      [question |-> "q2", passage |-> "p1", answer |-> FALSE],
      [question |-> "q1", passage |-> "p2", answer |-> FALSE] }

NoMarkerText   == <<"x", " ", "7">>                                \* "x 7"
ThreeHashText  == <<"#", "#", "#", "5">>                           \* "###5"
PlainText      == <<"x", "#", "#", "#", "#", " ", "4", "2">>       \* "x#### 42"
CommaText      == <<"#", "#", "#", "#", " ", "1", ",", "2", "3", "4", " ">>  \* "#### 1,234 "
TwoMarkerText  == <<"#", "#", "#", "#", "1", "#", "#", "#", "#", "2">>       \* "####1####2"
BadNumberText  == <<"#", "#", "#", "#", " ", "x">>                 \* "#### x"

Gsm8kRecords ==
    { [question |-> "Q1", answer |-> NoMarkerText],
      [question |-> "Q2", answer |-> ThreeHashText],
      [question |-> "Q1", answer |-> PlainText],
      [question |-> "Q2", answer |-> CommaText],
      [question |-> "Q1", answer |-> TwoMarkerText],
      [question |-> "Q2", answer |-> BadNumberText] }

Records(f) ==
    CASE f = "piqa"      -> PiqaRecords
      [] f = "hellaswag" -> HellaswagRecords
      [] f = "boolq"     -> BoolqRecords
      [] f = "gsm8k"     -> Gsm8kRecords

SeqsUpTo(S, k) == UNION {[1..m -> S] : m \in 0..k}

\* what load_dataset may return to a direct call of f
DirectSources == [f \in Functions |-> SeqsUpTo(Records(f), MaxSrc)]

\* what load_dataset may return in a run of the script (a sample of the records)
ScriptRecords(f) ==
    CASE f = "piqa"      -> {r \in PiqaRecords : r.label \in {0, -1}}
      [] f = "hellaswag" -> {r \in HellaswagRecords : r.label \in {3}}
      [] f = "boolq"     -> {r \in BoolqRecords : r.passage = "p2"}
      [] f = "gsm8k"     -> {r \in Gsm8kRecords :
                                r.answer \in {NoMarkerText, PlainText, BadNumberText}}

ScriptSources == [f \in Functions |-> SeqsUpTo(ScriptRecords(f), MaxScriptSrc)]

\* answer texts built from up to MaxTokens pieces, for the text-level check
Tokens == {Marker, <<"#">>, <<"1">>, <<"2">>, <<",">>, <<" ">>, <<"x">>}

RECURSIVE Flatten(_)
Flatten(ts) == IF ts = <<>> THEN <<>> ELSE Head(ts) \o Flatten(Tail(ts))

Texts == {Flatten(ts) : ts \in SeqsUpTo(Tokens, MaxTokens)}

TextSources == [f \in Functions |-> {<<[question |-> "Q", answer |-> t]>> : t \in Texts}]

-----------------------------------------------------------------------------
(* The program                                                             *)

Absent == [state |-> "absent", content |-> <<>>]
Stale  == [state |-> "stale", content |-> <<>>]     \* left by an earlier run
Written(d) == [state |-> "written", content |-> d]

SavedName(f) ==
    CASE f = "piqa"      -> "PIQA"
      [] f = "hellaswag" -> "HellaSwag"
      [] f = "boolq"     -> "BoolQ"
      [] f = "gsm8k"     -> "GSM8K"

\* the prints a function makes before it loads
Announce(f) == IF f = "boolq" THEN <<"\nDownloading BoolQ...">> ELSE <<>>

\* faulty variant: the first two calls exchanged
MainCalleeSwapped(l) ==
    CASE l = 94 -> "hellaswag"
      [] l = 95 -> "piqa"
      [] l = 96 -> "boolq"
      [] l = 97 -> "gsm8k"

\* the function called at each line of the __main__ block
MainCallee(l) ==
    CASE l = 94 -> "piqa"
      [] l = 95 -> "hellaswag"
      [] l = 96 -> "boolq"
      [] l = 97 -> "gsm8k"

MainCalls == 94..97

InitFunction ==
    /\ fn = "none" /\ n = 0 /\ pc = "idle"
    /\ dataset = <<>> /\ i = 0 /\ data = <<>> /\ ret = 0 /\ exc = "none"
    /\ out = <<>>
    /\ loads = [f \in Functions |-> 0]
    /\ writes = [f \in Functions |-> 0]
    /\ emitted = <<>>
    /\ files \in {[f \in Functions |-> Absent], [f \in Functions |-> Stale]}

\* the module imported, its functions called by hand
Init == line = 0 /\ total = 0 /\ InitFunction

\* the module run as a script, about to enter the __main__ block
InitScript == line = 92 /\ total = 0 /\ InitFunction

\* a direct call f(k)
call(f, k) ==
    /\ line = 0 /\ pc = "idle"
    /\ fn' = f /\ n' = k /\ pc' = "load"
    /\ UNCHANGED <<line, total, dataset, i, data, ret, exc, files, out,
                   loads, writes, emitted>>

\* dataset = load_dataset(...); data = []; the loop is entered
load_dataset(srcs) ==
    /\ pc = "load"
    /\ \E d \in srcs[fn] : dataset' = d
    /\ data' = <<>> /\ i' = 0 /\ emitted' = <<>>
    /\ out' = out \o Announce(fn)
    /\ loads' = [loads EXCEPT ![fn] = @ + 1]
    /\ pc' = "loop"
    /\ UNCHANGED <<line, total, fn, n, ret, exc, files, writes>>

\* load_dataset raises (network, lookup): nothing in the function catches it
load_dataset_fails ==
    /\ pc = "load"
    /\ out' = out \o Announce(fn)
    /\ loads' = [loads EXCEPT ![fn] = @ + 1]
    /\ exc' = "LoadError" /\ pc' = "raised"
    /\ UNCHANGED <<line, total, fn, n, dataset, i, data, ret, files, writes, emitted>>

\* enumerate(dataset) has a next item (i, ex)
HasNext == i < Len(dataset)

ex == dataset[i + 1]

\* faulty variants of the break test: off by one either way, and counting
\* the records appended instead of the records looked at
LimitReachedLate == i > n
LimitReachedEarly == i + 1 >= n
LimitReachedByEmitted == Len(data) >= n

\* if i >= n: break
LimitReached == i >= n

LoopOver == ~HasNext \/ LimitReached

\* faulty variant: data.insert(0, r)
AppendFront(d, r) == <<r>> \o d

\* data.append(r)
append(d, r) == Append(d, r)

Emit(r) ==
    /\ data' = append(data, r)
    /\ emitted' = append(emitted, i)
    /\ i' = i + 1

piqa_record(e) ==
    [goal |-> e.goal, sol1 |-> e.sol1, sol2 |-> e.sol2, label |-> str(e.label)]

hellaswag_record(e) ==
    [context |-> e.ctx, endings |-> e.endings, label |-> str(e.label)]

boolq_record(e) ==
    [question |-> e.question, passage |-> e.passage, answer |-> e.answer]

\* faulty variant: split("####")[1], the text after the first marker
AnswerLiteralFirst(t) == RemoveCommas(Strip(Split(t, Marker)[2]))

\* answer_text.split("####")[-1].strip().replace(",", "")
AnswerLiteral(t) ==
    LET parts == Split(t, Marker)
    IN  RemoveCommas(Strip(parts[Len(parts)]))

gsm8k_record(e) ==
    [question |-> e.question, answer |-> Float(AnswerLiteral(e.answer)),
     solution |-> e.answer]

\* one pass through the body of download_piqa's loop
download_piqa ==
    /\ pc = "loop" /\ fn = "piqa" /\ HasNext /\ ~LimitReached
    /\ Emit(piqa_record(ex))
    /\ UNCHANGED <<line, total, fn, n, pc, dataset, ret, exc, files, out, loads, writes>>

download_hellaswag ==
    /\ pc = "loop" /\ fn = "hellaswag" /\ HasNext /\ ~LimitReached
    /\ Emit(hellaswag_record(ex))
    /\ UNCHANGED <<line, total, fn, n, pc, dataset, ret, exc, files, out, loads, writes>>

download_boolq ==
    /\ pc = "loop" /\ fn = "boolq" /\ HasNext /\ ~LimitReached
    /\ Emit(boolq_record(ex))
    /\ UNCHANGED <<line, total, fn, n, pc, dataset, ret, exc, files, out, loads, writes>>

\* faulty variant: the marker test left out
HasMarkerAlways(t) == TRUE

\* "####" in answer_text
HasMarker(t) == Contains(t, Marker)

\* faulty variant: the ValueError caught and the record skipped
ValueErrorSwallowed ==
    /\ i' = i + 1
    /\ UNCHANGED <<pc, exc, data, emitted>>

\* float(...) raises ValueError; nothing catches it
ValueErrorRaised ==
    /\ exc' = "ValueError" /\ pc' = "raised"
    /\ UNCHANGED <<i, data, emitted>>

download_gsm8k ==
    /\ pc = "loop" /\ fn = "gsm8k" /\ HasNext /\ ~LimitReached
    /\ IF HasMarker(ex.answer)
       THEN IF IsFloatLiteral(AnswerLiteral(ex.answer))
            THEN Emit(gsm8k_record(ex)) /\ UNCHANGED <<pc, exc>>
            ELSE ValueErrorRaised
       ELSE \* continue
            i' = i + 1 /\ UNCHANGED <<pc, exc, data, emitted>>
    /\ UNCHANGED <<line, total, fn, n, dataset, ret, files, out, loads, writes>>

\* break, or the source is exhausted
loop_exit ==
    /\ pc = "loop" /\ LoopOver
    /\ pc' = "write"
    /\ UNCHANGED <<line, total, fn, n, dataset, i, data, ret, exc, files, out,
                   loads, writes, emitted>>

\* json.dump(data, f); print(...); return len(data)
json_dump ==
    /\ pc = "write"
    /\ files' = [files EXCEPT ![fn] = Written(data)]
    /\ writes' = [writes EXCEPT ![fn] = @ + 1]
    /\ out' = Append(out, <<"Saved", Len(data), SavedName(fn), "examples">>)
    /\ ret' = Len(data)
    /\ pc' = "returned"
    /\ UNCHANGED <<line, total, fn, n, dataset, i, data, exc, loads, emitted>>

Body(srcs) ==
    \/ load_dataset(srcs)
    \/ load_dataset_fails
    \/ download_piqa
    \/ download_hellaswag
    \/ download_boolq
    \/ download_gsm8k
    \/ loop_exit
    \/ json_dump

\* print("Downloading Benchmark Datasets"); total = 0
main_begin ==
    /\ line = 92
    /\ out' = Append(out, "Downloading Benchmark Datasets")
    /\ total' = 0
    /\ line' = 94
    /\ UNCHANGED <<fn, n, pc, dataset, i, data, ret, exc, files, loads, writes, emitted>>

\* download_x(100) is entered
main_call ==
    /\ line \in MainCalls /\ pc = "idle"
    /\ fn' = MainCallee(line) /\ n' = DefaultN /\ pc' = "load"
    /\ UNCHANGED <<line, total, dataset, i, data, ret, exc, files, out,
                   loads, writes, emitted>>

\* total += <the value returned>; on to the next line
main_add ==
    /\ line \in MainCalls /\ pc = "returned"
    /\ total' = total + ret
    /\ line' = line + 1
    /\ fn' = "none" /\ pc' = "idle"
    /\ UNCHANGED <<n, dataset, i, data, ret, exc, files, out, loads, writes, emitted>>

\* an exception reaches the top level: the interpreter prints it and exits
main_abort ==
    /\ line \in MainCalls /\ pc = "raised"
    /\ pc' = "exited"
    /\ UNCHANGED <<line, total, fn, n, dataset, i, data, ret, exc, files, out,
                   loads, writes, emitted>>

Limits == (0..MaxLimit) \cup {DefaultN}

Next ==
    \/ \E f \in Functions, k \in Limits : call(f, k)
    \/ Body(DirectSources)

Spec == Init /\ [][Next]_vars

NextScript ==
    \/ main_begin
    \/ main_call
    \/ main_add
    \/ main_abort
    \/ Body(ScriptSources)

SpecScript == InitScript /\ [][NextScript]_vars

\* download_gsm8k(1) on a one-record source, over every answer text
InitText == Init

NextText ==
    \/ call("gsm8k", 1)
    \/ load_dataset(TextSources)
    \/ download_gsm8k
    \/ loop_exit
    \/ json_dump

SpecText == InitText /\ [][NextText]_vars

-----------------------------------------------------------------------------
(* Vocabulary of the properties, stated without the program's operators    *)

Min(a, b) == IF a <= b THEN a ELSE b

\* the positions at which "####" occurs in t
MarkerPositions(t) ==
    {q \in 1..(Len(t) - 3) : \A k \in 0..3 : t[q + k] = "#"}

LacksMarker(t) == MarkerPositions(t) = {}

\* the text that follows the last occurrence of "####" in t
AfterLastMarker(t) ==
    LET q == CHOOSE q \in MarkerPositions(t) : \A r \in MarkerPositions(t) : r <= q
    IN  SubSeq(t, q + 4, Len(t))

\* the number written after the last marker: surrounding whitespace stripped,
\* every "," removed
WrittenNumber(t) == RemoveCommas(Strip(AfterLastMarker(t)))

\* the value of a numeric text: its digits read in base ten
NumberValue(s) == DecimalValue(SelectSeq(s, IsDigit))

\* a math record that carries the marker but no number after it
BadNumber(e) == ~LacksMarker(e.answer) /\ ~IsFloatLiteral(WrittenNumber(e.answer))

\* how many of the first k records of d lack the marker
RECURSIVE Markerless(_, _)
Markerless(d, k) ==
    IF k = 0 THEN 0
    ELSE Markerless(d, k - 1) + (IF LacksMarker(d[k].answer) THEN 1 ELSE 0)

\* int(s) of the decimal text s
ParseInt(s) == IF s[1] = "-" THEN -DecimalValue(Tail(s)) ELSE DecimalValue(s)

IsIntText(s) ==
    LET body == IF s # <<>> /\ s[1] = "-" THEN Tail(s) ELSE s
    IN  body # <<>> /\ \A k \in 1..Len(body) : IsDigit(body[k])

\* the normalized record the documentation of each function describes
Image(f, e) ==
    CASE f = "piqa"      -> piqa_record(e)
      [] f = "hellaswag" -> hellaswag_record(e)
      [] f = "boolq"     -> boolq_record(e)
      [] f = "gsm8k"     -> gsm8k_record(e)

\* the source positions (from 0) below k that a function f keeps, in order
Kept(f, d, k) ==
    SelectSeq([p \in 1..k |-> p - 1],
              LAMBDA p : f # "gsm8k" \/ ~LacksMarker(d[p + 1].answer))

Order(f) ==
    CASE f = "piqa" -> 1 [] f = "hellaswag" -> 2 [] f = "boolq" -> 3 [] f = "gsm8k" -> 4

Finished == pc \in {"write", "returned"}

Available == Len(dataset)

-----------------------------------------------------------------------------
(* C1: in each of the four functions, for every source and every n >= 0,   *)
(* the list accumulated, the list written to the file and the count        *)
(* returned never exceed n.                                                *)
C1_AtMostLimit ==
    fn # "none" =>
        /\ Len(data) <= n
        /\ pc = "returned" =>
              /\ files[fn] = Written(data)
              /\ Len(files[fn].content) <= n
              /\ ret = Len(data) /\ ret <= n

C1_Witness ==
    /\ fn = "hellaswag" /\ pc = "returned"
    /\ n = 2 /\ Available = 3 /\ ret = 2 /\ Len(files[fn].content) = 2

(* C2: for piqa, hellaswag and boolq the output length is exactly          *)
(* min(n, available); for gsm8k it is min(n, available) minus the number   *)
(* of marker-less records among the first min(n, available) raw records.   *)
C2_ExactLength ==
    pc = "returned" =>
        LET m == Min(n, Available)
        IN  /\ ret = Len(files[fn].content)
            /\ fn # "gsm8k" => ret = m
            /\ fn = "gsm8k" => ret = m - Markerless(dataset, m)

C2_Witness ==
    /\ fn = "gsm8k" /\ pc = "returned"
    /\ n = 2 /\ Available = 3
    /\ LacksMarker(dataset[1].answer) /\ ~LacksMarker(dataset[3].answer)
    /\ ret = 1

(* C3, as stated: in download_gsm8k a skipped record does not count        *)
(* against the limit; the loop stops only after emitting n records or at   *)
(* the end of the source, so a source with at least n marker-bearing       *)
(* records yields exactly n records.                                       *)
C3_SkippedNotCounted ==
    (fn = "gsm8k" /\ Finished) =>
        /\ Len(data) = n \/ i = Available
        /\ (Available - Markerless(dataset, Available) >= n) => Len(data) = n

(* C3, amended: a skipped record does count against the limit; the loop    *)
(* stops after looking at n raw records or at the end of the source, so    *)
(* exactly n records come out when the first n raw records all carry the   *)
(* marker, and fewer than n when one of the first n lacks it.              *)
C3_SkippedCounted ==
    (fn = "gsm8k" /\ Finished) =>
        /\ i = Min(n, Available)
        /\ (Available >= n /\ Markerless(dataset, n) = 0) => Len(data) = n
        /\ (Available >= n /\ Markerless(dataset, n) > 0) => Len(data) < n

C3_Witness ==
    /\ fn = "gsm8k" /\ pc = "returned"
    /\ n = 2 /\ Available = 3
    /\ Markerless(dataset, 3) = 1 /\ LacksMarker(dataset[2].answer)
    /\ ret = 1

(* C4: the output keeps source order and multiplicity: the records         *)
(* appended come from strictly increasing source positions, one output     *)
(* per kept raw record, equal raw records each emitted; for piqa,          *)
(* hellaswag and boolq the output is the image of the first                *)
(* min(n, available) raw records in order.                                 *)
C4_OrderAndMultiplicity ==
    (fn # "none" /\ pc \in {"loop", "write", "returned"}) =>
        /\ emitted = Kept(fn, dataset, i)
        /\ Len(data) = Len(emitted)
        /\ \A k \in 1..Len(data) : data[k] = Image(fn, dataset[emitted[k] + 1])
        /\ \A k \in 2..Len(emitted) : emitted[k - 1] < emitted[k]
        /\ (fn # "gsm8k" /\ Finished) =>
              /\ Len(data) = Min(n, Available)
              /\ \A k \in 1..Len(data) : data[k] = Image(fn, dataset[k])
        /\ pc = "returned" => files[fn].content = data

C4_Witness ==
    /\ fn = "boolq" /\ pc = "returned" /\ Len(data) = 3
    /\ dataset[1] = dataset[3] /\ dataset[1] # dataset[2]
    /\ data[1] = data[3] /\ data[1] # data[2]

(* C5: in download_gsm8k a raw record whose answer text has no "####" is   *)
(* never in the output and raises no error; a source of one marker-less    *)
(* record with n = 1 gives an empty output.                                *)
C5_MarkerlessDropped ==
    fn = "gsm8k" =>
        /\ \A k \in 1..Len(data) :
              /\ ~LacksMarker(data[k].solution)
              /\ ~LacksMarker(dataset[emitted[k] + 1].answer)
        /\ \A k \in 1..Len(files[fn].content) : ~LacksMarker(files[fn].content[k].solution)
        /\ exc = "ValueError" => ~LacksMarker(ex.answer)
        /\ (pc = "loop" /\ exc = "none") =>
              Len(data) + Markerless(dataset, i) = i

C5_Witness ==
    /\ fn = "gsm8k" /\ pc = "returned" /\ n = 1
    /\ Available = 1 /\ LacksMarker(dataset[1].answer)
    /\ files[fn] = Written(<<>>) /\ ret = 0 /\ exc = "none"

(* C6: every record download_gsm8k emits has the raw answer text as its    *)
(* solution, and as its answer the number written after the last "####"    *)
(* of that text, whitespace around it stripped and every "," removed, also *)
(* when the text holds several markers.                                    *)
C6_AnswerAfterLastMarker ==
    fn = "gsm8k" =>
        \A k \in 1..Len(data) :
            /\ data[k].solution = dataset[emitted[k] + 1].answer
            /\ IsFloatLiteral(WrittenNumber(data[k].solution))
            /\ data[k].answer = NumberValue(WrittenNumber(data[k].solution))

C6_Witness ==
    /\ fn = "gsm8k" /\ pc = "returned" /\ Len(data) = 1
    /\ Cardinality(MarkerPositions(data[1].solution)) = 2
    /\ data[1].solution = <<"#", "#", "#", "#", "1", "#", "#", "#", "#", " ", "2">>
    /\ data[1].answer = 2

(* C7: in download_piqa and download_hellaswag the label of the k-th       *)
(* output is the decimal text of the k-th input's integer label, so        *)
(* parsing it gives that integer back; a label outside the option range is *)
(* passed through as its decimal text, neither dropped nor rejected.       *)
C7_LabelRoundTrip ==
    (fn \in {"piqa", "hellaswag"} /\ pc \in {"loop", "write", "returned"}) =>
        /\ Len(data) = i /\ exc = "none"
        /\ \A k \in 1..Len(data) :
              /\ IsIntText(data[k].label)
              /\ ParseInt(data[k].label) = dataset[k].label

C7_Witness ==
    /\ fn = "hellaswag" /\ pc = "returned" /\ Len(data) = 2
    /\ dataset[1].label = -20 /\ data[1].label = <<"-", "2", "0">>
    /\ dataset[2].label = 7 /\ data[2].label = <<"7">>

(* C8: when download_gsm8k looks at a record that has "####" but no number *)
(* after the last one, it fails with a parse error nobody catches: the     *)
(* function ends at that record, data/gsm8k.json is not written (what was  *)
(* accumulated is lost), and the files written earlier in the run stay as  *)
(* they are.                                                               *)
C8_ParseErrorState ==
    /\ exc = "ValueError" =>
          /\ fn = "gsm8k" /\ pc \in {"raised", "exited"}
          /\ HasNext /\ BadNumber(ex)
          /\ writes["gsm8k"] = 0 /\ files["gsm8k"].state # "written"
          /\ \A f \in Functions \ {"gsm8k"} :
                writes[f] = 1 /\ files[f].state = "written"
    /\ (fn = "gsm8k" /\ exc = "none" /\ pc \in {"loop", "write", "returned"}) =>
          \A p \in 1..i : ~BadNumber(dataset[p])

C8_ParseErrorUncaught ==
    /\ []C8_ParseErrorState
    /\ [][(exc' = "ValueError") =>
             /\ files' = files /\ writes' = writes
             /\ (exc = "ValueError" => pc' = "exited" /\ data' = data /\ i' = i)]_vars

C8_Witness ==
    /\ exc = "ValueError" /\ pc = "exited" /\ line = 97
    /\ Len(data) = 1 /\ i = 1
    /\ files["gsm8k"] = Stale
    /\ Len(files["piqa"].content) = 2

(* C9: a run of the script performs the four downloads in the order piqa,  *)
(* hellaswag, boolq, gsm8k, each with n = 100, each loading once and       *)
(* writing its complete list once before the next starts; any uncaught     *)
(* failure ends the run: nothing later is loaded or written, nothing is    *)
(* retried.                                                                *)
C9_ScriptOrder ==
    /\ fn # "none" => n = DefaultN /\ fn = MainCallee(line)
    /\ \A f \in Functions :
          /\ loads[f] <= 1 /\ writes[f] <= loads[f]
          /\ writes[f] = 1 <=> files[f].state = "written"
          /\ \A g \in Functions :
                (Order(f) < Order(g) /\ loads[g] > 0) => writes[f] = 1
    /\ pc = "returned" => files[fn] = Written(data) /\ LoopOver
    /\ pc \in {"raised", "exited"} =>
          /\ exc # "none" /\ writes[fn] = 0 /\ loads[fn] = 1
          /\ \A g \in Functions : Order(g) > Order(fn) => loads[g] = 0 /\ writes[g] = 0
    /\ pc = "exited" => ~ENABLED NextScript
    /\ line = 98 => \A f \in Functions : loads[f] = 1 /\ writes[f] = 1

C9_Witness ==
    /\ pc = "exited" /\ fn = "boolq" /\ exc = "LoadError"
    /\ writes["piqa"] = 1 /\ writes["hellaswag"] = 1
    /\ Len(files["hellaswag"].content) = 2
    /\ loads["gsm8k"] = 0 /\ files["gsm8k"] = Absent

(* C10: download_gsm8k looks only at the raw records at positions 0..n-1,  *)
(* however many of them it skipped: a record at position >= n is never in  *)
(* the output, even when fewer than n were emitted, and never causes a     *)
(* parse failure.                                                          *)
C10_OnlyFirstN ==
    fn = "gsm8k" =>
        /\ \A k \in 1..Len(emitted) : emitted[k] < n
        /\ exc = "ValueError" => i < n
        /\ Finished => Len(data) = Len(Kept(fn, dataset, Min(n, Available)))

C10_Witness ==
    /\ fn = "gsm8k" /\ pc = "returned" /\ n = 2 /\ Available = 3
    /\ ret = 1 /\ LacksMarker(dataset[1].answer)
    /\ BadNumber(dataset[3])

====
